---- MODULE Spec2Model ----
(***************************************************************************)
(* Routing core of serverless-next.js (packages/libs/core):                *)
(*   - redirect.ts   getRedirectPath, getTrailingSlashPath,                *)
(*                   createRedirectResponse                                *)
(*   - match.ts      matchPath, compileDestination                         *)
(*   - page.ts       handlePageReq, handle404, pageHtml                    *)
(*   - build/index.ts prepareBuildManifests (locale materialization)       *)
(*                                                                         *)
(* Strings that are paths are modelled as sequences of path segments:      *)
(* "/" is << >>, "/a/b" is <<"a", "b">>.  Route patterns are sequences of  *)
(* tokens, a literal segment or a named parameter.  Where the code works   *)
(* on the characters of a string (trailing slashes, query strings) the     *)
(* string is the sequence of its characters.                               *)
(***************************************************************************)
EXTENDS Integers, Sequences, FiniteSets, TLC

VARIABLES
    \* ---- getRedirectPath (redirect.ts) ----
    redirects,      \* routesManifest.redirects, in declaration order
    i18n,           \* routesManifest.i18n is configured
    requestUri,     \* request.uri
    path,           \* const path (redirect.ts:112)
    idx,            \* position of the for..of loop (redirect.ts:116), 1-based
    examined,       \* indices of the rules matchPath was called on
    rpc,            \* "idle" | "scan" | "done"
    result,         \* value returned by getRedirectPath
    \* ---- handlePageReq (page.ts) ----
    pages,          \* manifest.pages
    rewrites,       \* routesManifest.rewrites, in declaration order
    isPreview,      \* argument isPreview
    stack,          \* active calls of handlePageReq: [uri, isRewrite, querystring]
    ppc,            \* "idle" | "call" | "return" (into the caller) | "done"
    ret,            \* value returned by the call that returned last
    calls,          \* number of calls of handlePageReq so far
    lookups,        \* number of calls of getRewritePath / matchDynamicRoute so far
    \* ---- prepareBuildManifests (build/index.ts) ----
    pagesManifest,      \* argument pagesManifest, entries in insertion order
    prerenderManifest,  \* argument prerenderManifest: routes, dynamicRoutes
    bpc,                \* "idle" | "classify" | "prerender" | "locales" | "merge" | "split" | "done"
    localeIdx,          \* position of the loop over i18n.locales (index.ts:185)
    htmlPages,          \* const htmlPages (index.ts:63)
    ssrPages,           \* const ssrPages (index.ts:62)
    ssgPages,           \* const ssgPages (index.ts:61)
    apiPages,           \* apiManifest.apis.nonDynamic and dynamicApi
    localePages,        \* localeHtmlPages, localeSsrPages, localeSsgPages
    pageManifest,       \* pageManifest.pages once it is reassigned or completed
    \* ---- getTrailingSlashPath (redirect.ts) ----
    slashUri,       \* request.uri of the current request
    trailingSlash,  \* manifest.trailingSlash
    isFile,         \* argument isFile
    slashSeen,      \* request URIs that were answered with a redirect, in order
    slashResult,    \* value returned by the last call of getTrailingSlashPath
    spc,            \* "idle" | "request" | "responded" | "settled"
    \* ---- createRedirectResponse (redirect.ts) ----
    respUri,        \* argument uri
    respQuery,      \* argument querystring
    respStatus,     \* argument statusCode
    response,       \* value returned by createRedirectResponse
    cpc             \* "idle" | "call" | "done"

redirVars == <<redirects, i18n, requestUri, path, idx, examined, rpc, result>>

pageVars == <<pages, rewrites, isPreview, stack, ppc, ret, calls, lookups>>

buildVars == <<pagesManifest, prerenderManifest, bpc, localeIdx, htmlPages, ssrPages,
               ssgPages, apiPages, localePages, pageManifest>>

slashVars == <<slashUri, trailingSlash, isFile, slashSeen, slashResult, spc>>

responseVars == <<respUri, respQuery, respStatus, response, cpc>>

vars == <<redirVars, pageVars, buildVars, slashVars, responseVars>>

----------------------------------------------------------------------------
(* Bounds of the model *)

\* longest routesManifest.redirects list explored
MaxRules == 2

\* longest request URI, in characters, given to getTrailingSlashPath
MaxUriLen == 4

\* most redirects a client follows in a row
MaxHops == 6

\* longest routesManifest.rewrites list explored
MaxRewrites == 2

\* deepest nesting of handlePageReq calls explored
MaxDepth == 3

\* most entries of pagesManifest explored
MaxPages == 2

\* most entries of prerenderManifest.routes explored
MaxPrerender == 2

----------------------------------------------------------------------------
(* Values *)

Null == [null |-> TRUE]

\* i18n.locales and i18n.defaultLocale of the modelled routes manifest
Locales == <<"en", "nl">>
DefaultLocale == "en"
LocaleSet == {Locales[i] : i \in 1..Len(Locales)}

Digits == {"1"}

Lit(s) == [kind |-> "lit", val |-> s, pat |-> "none"]
Param(n, p) == [kind |-> "param", val |-> n, pat |-> p]

\* request URIs: /a /old/1 /old/x /en/a
RequestUris ==
    { <<"a">>, <<"old", "1">>, <<"old", "x">>, <<"en", "a">> }

\* redirect sources: /a  /:slug  /old/:id(\d{1,})  /:nextInternalLocale(en|nl)/a
Sources ==
    { <<Lit("a")>>,
      <<Param("slug", "any")>>,
      <<Lit("old"), Param("id", "digits")>>,
      <<Param("nextInternalLocale", "locale"), Lit("a")>> }

Dest(scheme, host, toks, slash) ==
    [scheme |-> scheme, host |-> host, toks |-> toks, slash |-> slash]

\* redirect destinations:
\*   /b   /news/:slug   /users/:id   https://example.com   ftp://example.com
Destinations ==
    { Dest("", "", <<Lit("b")>>, FALSE),
      Dest("", "", <<Lit("news"), Param("slug", "any")>>, FALSE),
      Dest("", "", <<Lit("users"), Param("id", "any")>>, FALSE),
      Dest("https", "example.com", << >>, FALSE),
      Dest("ftp", "example.com", << >>, FALSE) }

StatusCodes == {308, 302}

Rules ==
    [source : Sources, destination : Destinations, statusCode : StatusCodes]

RECURSIVE SeqsUpTo(_, _)
SeqsUpTo(S, n) ==
    IF n = 0 THEN { << >> }
    ELSE LET shorter == SeqsUpTo(S, n - 1)
         IN  shorter \cup { Append(s, x) : s \in {t \in shorter : Len(t) = n - 1}, x \in S }

----------------------------------------------------------------------------
(* locale.ts *)

\* addDefaultLocaleToPath: with i18n, a path that carries no locale prefix
\* gets the default locale prepended
addDefaultLocaleToPath(uri, hasI18n) ==
    IF hasI18n
    THEN IF Len(uri) > 0 /\ uri[1] \in LocaleSet THEN uri
         ELSE <<DefaultLocale>> \o uri
    ELSE uri

----------------------------------------------------------------------------
(* match.ts *)

SegMatches(tok, seg) ==
    IF tok.kind = "lit" THEN tok.val = seg
    ELSE CASE tok.pat = "digits" -> seg \in Digits
           [] tok.pat = "locale" -> seg \in LocaleSet
           [] OTHER -> TRUE

ParamNames(toks) == {toks[i].val : i \in {j \in 1..Len(toks) : toks[j].kind = "param"}}

\* matchPath(path, source): path-to-regexp match(); false, or the captured params
matchPath(p, source) ==
    IF Len(p) = Len(source) /\ \A i \in 1..Len(p) : SegMatches(source[i], p[i])
    THEN [matched |-> TRUE,
          params |-> [n \in ParamNames(source) |->
                        p[CHOOSE i \in 1..Len(source) :
                              source[i].kind = "param" /\ source[i].val = n]]]
    ELSE [matched |-> FALSE, params |-> << >>]

\* path-to-regexp compile(template)(params): throws when a parameter of the
\* template has no value
ToPathThrows(toks, params) == \E n \in ParamNames(toks) : n \notin DOMAIN params

ToPath(toks, params) ==
    [i \in 1..Len(toks) |->
        IF toks[i].kind = "lit" THEN toks[i].val ELSE params[toks[i].val]]

Compiled(origin, segs, slash) == [origin |-> origin, segs |-> segs, slash |-> slash]

\* the string "" (falsy in !compiledDestination)
IsEmptyString(c) == c = Compiled("", << >>, FALSE)

\* compileDestination with the try/catch removed: a pattern error escapes
compileDestinationNoCatch(destination, params) ==
    IF destination.scheme \in {"https", "http"}
    THEN IF ToPathThrows(destination.toks, params) THEN [thrown |-> TRUE]
         ELSE Compiled(destination.scheme \o "://" \o destination.host,
                       ToPath(destination.toks, params), destination.slash)
    ELSE IF destination.scheme # "" \/ ToPathThrows(destination.toks, params)
         THEN [thrown |-> TRUE]
         ELSE Compiled("", ToPath(destination.toks, params), destination.slash)

compileDestination(destination, params) ==
    IF destination.scheme \in {"https", "http"}
    THEN \* external URL: only the pathname is compiled (part_000:34-43)
         IF ToPathThrows(destination.toks, params) THEN Null
         ELSE LET segs == ToPath(destination.toks, params)
                  \* pathname of a URL without path is "/"
                  endsWithSlash == destination.slash \/ segs = << >>
              IN  Compiled(destination.scheme \o "://" \o destination.host, segs,
                           IF ~destination.slash /\ endsWithSlash
                           THEN FALSE ELSE endsWithSlash)
    ELSE \* every other destination is compiled as a whole (part_000:46-50);
         \* "scheme://" is not a valid pattern: parameter without name
         IF destination.scheme # "" \/ ToPathThrows(destination.toks, params)
         THEN Null
         ELSE Compiled("", ToPath(destination.toks, params), destination.slash)

----------------------------------------------------------------------------
(* redirect.ts: getRedirectPath *)

Return(v) == [returns |-> TRUE, value |-> v]
Continue == [returns |-> FALSE, value |-> Null]

\* loop body that ignores a match whose destination does not compile
LoopBodyFallThrough(redirect, p) ==
    LET match == matchPath(p, redirect.source)
    IN  IF match.matched
        THEN LET compiledDestination ==
                     compileDestination(redirect.destination, match.params)
             IN  IF compiledDestination = Null THEN Continue
                 ELSE Return([path |-> compiledDestination,
                              statusCode |-> redirect.statusCode])
        ELSE Continue

\* body of the for..of loop, redirect.ts:117-133
LoopBody(redirect, p) ==
    LET match == matchPath(p, redirect.source)
    IN  IF match.matched
        THEN LET compiledDestination ==
                     compileDestination(redirect.destination, match.params)
             IN  IF compiledDestination = Null \/ IsEmptyString(compiledDestination)
                 THEN Return(Null)
                 ELSE Return([path |-> compiledDestination,
                              statusCode |-> redirect.statusCode])
        ELSE Continue

\* handlePageReq is not running
PageIdle ==
    /\ pages = Null
    /\ rewrites = << >>
    /\ isPreview = FALSE
    /\ stack = << >>
    /\ ppc = "idle"
    /\ ret = Null
    /\ calls = 0
    /\ lookups = [rewrite |-> 0, dynamic |-> 0]

\* prepareBuildManifests is not running
BuildIdle ==
    /\ pagesManifest = << >>
    /\ prerenderManifest = Null
    /\ bpc = "idle"
    /\ localeIdx = 0
    /\ htmlPages = Null
    /\ ssrPages = Null
    /\ ssgPages = Null
    /\ apiPages = Null
    /\ localePages = Null
    /\ pageManifest = Null

\* getTrailingSlashPath is not running
SlashIdle ==
    /\ slashUri = << >>
    /\ trailingSlash = FALSE
    /\ isFile = FALSE
    /\ slashSeen = << >>
    /\ slashResult = << >>
    /\ spc = "idle"

\* createRedirectResponse is not running
ResponseIdle ==
    /\ respUri = << >>
    /\ respQuery = << >>
    /\ respStatus = 0
    /\ response = Null
    /\ cpc = "idle"

\* getRedirectPath is not running
RedirectIdle ==
    /\ redirects = << >>
    /\ path = << >>
    /\ idx = 0
    /\ examined = {}
    /\ rpc = "idle"
    /\ result = Null

RedirectInit ==
    /\ redirects \in SeqsUpTo(Rules, MaxRules)
    /\ i18n \in BOOLEAN
    /\ requestUri \in RequestUris
    /\ path = << >>
    /\ idx = 0
    /\ examined = {}
    /\ rpc = "idle"
    /\ result = Null
    /\ PageIdle
    /\ BuildIdle
    /\ SlashIdle
    /\ ResponseIdle

\* redirect.ts:112-114
RedirectEnter ==
    /\ rpc = "idle"
    /\ path' = addDefaultLocaleToPath(requestUri, i18n)
    /\ idx' = 1
    /\ rpc' = "scan"
    /\ UNCHANGED <<redirects, i18n, requestUri, examined, result, pageVars, buildVars, slashVars, responseVars>>

\* an iteration that goes on to the next rule although the rule returned
RedirectNextNoReturn ==
    /\ rpc = "scan"
    /\ idx <= Len(redirects)
    /\ idx' = idx + 1
    /\ examined' = examined \cup {idx}
    /\ UNCHANGED <<redirects, i18n, requestUri, path, rpc, result, pageVars, buildVars, slashVars, responseVars>>

\* redirect.ts:116-134, an iteration that does not return
RedirectNext ==
    /\ rpc = "scan"
    /\ idx <= Len(redirects)
    /\ ~LoopBody(redirects[idx], path).returns
    /\ idx' = idx + 1
    /\ examined' = examined \cup {idx}
    /\ UNCHANGED <<redirects, i18n, requestUri, path, rpc, result, pageVars, buildVars, slashVars, responseVars>>

\* redirect.ts:119-133, an iteration that returns
RedirectReturn ==
    /\ rpc = "scan"
    /\ idx <= Len(redirects)
    /\ LoopBody(redirects[idx], path).returns
    /\ result' = LoopBody(redirects[idx], path).value
    /\ examined' = examined \cup {idx}
    /\ rpc' = "done"
    /\ UNCHANGED <<redirects, i18n, requestUri, path, idx, pageVars, buildVars, slashVars, responseVars>>

\* redirect.ts:136
RedirectNoMatch ==
    /\ rpc = "scan"
    /\ idx > Len(redirects)
    /\ result' = Null
    /\ rpc' = "done"
    /\ UNCHANGED <<redirects, i18n, requestUri, path, idx, examined, pageVars, buildVars, slashVars, responseVars>>

RedirectNextStep ==
    \/ RedirectEnter
    \/ RedirectNext
    \/ RedirectReturn
    \/ RedirectNoMatch

SpecRedirect == RedirectInit /\ [][RedirectNextStep]_vars

----------------------------------------------------------------------------
(* Claims about getRedirectPath *)

Matching(p, rules) == {i \in 1..Len(rules) : matchPath(p, rules[i].source).matched}

\* the first rule, in declaration order, whose source matches; 0 when none does
FirstMatch(p, rules) ==
    IF Matching(p, rules) = {} THEN 0
    ELSE CHOOSE i \in Matching(p, rules) : \A j \in Matching(p, rules) : i <= j

\* the destination cannot be compiled: not a valid pattern, or a parameter
\* of the destination was not captured by the source
CompileFails(rule, p) ==
    \/ rule.destination.scheme \notin {"", "http", "https"}
    \/ \E n \in ParamNames(rule.destination.toks) : n \notin ParamNames(rule.source)

\* the destination of the rule with the parameters captured from p filled in
Substituted(rule, p) ==
    [i \in 1..Len(rule.destination.toks) |->
        LET tok == rule.destination.toks[i]
        IN  IF tok.kind = "lit" THEN tok.val
            ELSE p[CHOOSE k \in 1..Len(rule.source) :
                       rule.source[k].kind = "param" /\ rule.source[k].val = tok.val]]

RedirectOf(rule, p) ==
    [path |-> Compiled(IF rule.destination.scheme = "" THEN ""
                       ELSE rule.destination.scheme \o "://" \o rule.destination.host,
                       Substituted(rule, p), rule.destination.slash),
     statusCode |-> rule.statusCode]

LocalePath == addDefaultLocaleToPath(requestUri, i18n)

\* C1: getRedirectPath returns the redirect of the FIRST rule, in declaration
\* order, whose source matches the request URI (after default-locale
\* insertion), with the captured parameters substituted into the destination
\* (null when that destination does not compile), and null when no rule matches.
C1_FirstMatchWins ==
    rpc = "done" =>
        LET k == FirstMatch(LocalePath, redirects)
        IN  IF k = 0 THEN result = Null
            ELSE IF CompileFails(redirects[k], LocalePath) THEN result = Null
            ELSE result = RedirectOf(redirects[k], LocalePath)

\* two rules match the path, they redirect differently, the first one's is returned
C1_Witness ==
    /\ rpc = "done"
    /\ Len(redirects) = 2
    /\ Matching(LocalePath, redirects) = {1, 2}
    /\ ~CompileFails(redirects[1], LocalePath)
    /\ ~CompileFails(redirects[2], LocalePath)
    /\ RedirectOf(redirects[1], LocalePath) # RedirectOf(redirects[2], LocalePath)
    /\ result = RedirectOf(redirects[1], LocalePath)
    /\ \E i \in 1..Len(redirects[1].destination.toks) :
            redirects[1].destination.toks[i].kind = "param"

WellFormedRedirect(r) ==
    \/ r = Null
    \/ /\ DOMAIN r = {"path", "statusCode"}
       /\ r.statusCode \in StatusCodes
       /\ DOMAIN r.path = {"origin", "segs", "slash"}

\* C2: when the destination of the matched rule cannot be compiled,
\* compileDestination returns null and getRedirectPath returns null; the
\* result is never a thrown error or a partial path.
C2_CompileFailureIsNull ==
    /\ rpc = "done" => WellFormedRedirect(result)
    /\ rpc = "done" =>
          LET k == FirstMatch(LocalePath, redirects)
          IN  (k # 0 /\ CompileFails(redirects[k], LocalePath)) =>
                /\ compileDestination(redirects[k].destination,
                        matchPath(LocalePath, redirects[k].source).params) = Null
                /\ result = Null

\* the rule /:slug -> /users/:id matched: the parameter id is missing
C2_Witness ==
    /\ rpc = "done"
    /\ FirstMatch(LocalePath, redirects) # 0
    /\ LET r == redirects[FirstMatch(LocalePath, redirects)]
       IN  /\ CompileFails(r, LocalePath)
           /\ r.destination.scheme = ""
    /\ result = Null

\* some rule after the first matching one matches too and compiles
LaterRuleApplies(k) ==
    \E j \in (k + 1)..Len(redirects) :
        /\ j \in Matching(LocalePath, redirects)
        /\ ~CompileFails(redirects[j], LocalePath)

\* C3 as claimed: a matching rule whose destination compiles to null is
\* skipped, and a later rule that matches and compiles gives the redirect.
C3_FallsThrough ==
    rpc = "done" =>
        LET k == FirstMatch(LocalePath, redirects)
        IN  (k # 0 /\ CompileFails(redirects[k], LocalePath) /\ LaterRuleApplies(k))
                => result # Null

\* C3 as amended: a null result of compileDestination for the first matching
\* rule ends the scan; getRedirectPath returns null and the rules declared
\* after it are not examined, even when one of them matches and compiles.
C3_NullEndsScan ==
    rpc = "done" =>
        LET k == FirstMatch(LocalePath, redirects)
        IN  (k # 0 /\ CompileFails(redirects[k], LocalePath))
                => (result = Null /\ examined = 1..k)

C3_Witness ==
    /\ rpc = "done"
    /\ FirstMatch(LocalePath, redirects) = 1
    /\ CompileFails(redirects[1], LocalePath)
    /\ LaterRuleApplies(1)
    /\ result = Null
    /\ examined = {1}

----------------------------------------------------------------------------
(* page.ts: handlePageReq *)

\* the value undefined (no query string is spelled like this)
Undefined == "<undefined>"

\* a file name "<dir>/<name>.<ext>"
File(name, ext) == [dir |-> "pages", name |-> name, ext |-> ext]

\* the value a bucket stores under a key (a file name given by the build)
Entry(bucket, key) == [bucket |-> bucket, key |-> key]

\* page.ts:12-17
pageHtml(localeUri) ==
    IF localeUri = << >> THEN File(<<"index">>, "html")
    ELSE File(localeUri, "html")

Static(file) == [isData |-> FALSE, isStatic |-> TRUE, file |-> file]
Render(page) == [isData |-> FALSE, isRender |-> TRUE, page |-> page]
External(p, q) == [isExternal |-> TRUE, path |-> p, querystring |-> q]

\* { ...route, querystring }
WithQuery(route, q) ==
    [k \in DOMAIN route \cup {"querystring"} |->
        IF k = "querystring" THEN q ELSE route[k]]

\* handle404 that ignores a custom 404 page
handle404NoCustomPage(pgs) == Render(File(<<"_error">>, "js"))

\* page.ts:19-32
handle404(pgs) ==
    IF <<"404">> \in pgs.html.nonDynamic
    THEN Static(File(<<"404">>, "html"))
    ELSE Render(File(<<"_error">>, "js"))

\* basepath.ts normalise, for routesManifest.basePath = "": a path has no
\* trailing slash and "" is "/"; both are the same sequence of segments here
normalise(p) == p

\* const localeUri, page.ts:42-45
LocaleUri(uri) == normalise(addDefaultLocaleToPath(uri, i18n))

\* non-dynamic lookup that does not look into the SSR bucket
nonDynamicRouteNoSsr(localeUri, pgs, preview) ==
    IF localeUri \in pgs.html.nonDynamic
    THEN Static(Entry("html.nonDynamic", localeUri))
    ELSE IF localeUri \in pgs.ssg.nonDynamic /\ ~preview
    THEN Static(pageHtml(localeUri))
    ELSE Null

\* page.ts:46-66: the route of a non-dynamic entry, Null when there is none
nonDynamicRoute(localeUri, pgs, preview) ==
    IF localeUri \in pgs.html.nonDynamic
    THEN Static(Entry("html.nonDynamic", localeUri))
    ELSE IF localeUri \in pgs.ssg.nonDynamic /\ ~preview
    THEN Static(pageHtml(localeUri))
    ELSE IF localeUri \in pgs.ssr.nonDynamic
    THEN Render(Entry("ssr.nonDynamic", localeUri))
    ELSE Null

\* rewrite.ts getRewritePath: the rules are scanned in declaration order against
\* the URI with the default locale inserted; the first match is compiled
RECURSIVE ScanRewrites(_, _, _)
ScanRewrites(p, rules, i) ==
    IF i > Len(rules) THEN Null
    ELSE LET match == matchPath(p, rules[i].source)
         IN  IF match.matched
             THEN LET d == compileDestination(rules[i].destination, match.params)
                  IN  IF d = Null THEN Null
                      ELSE [path |-> d, querystring |-> rules[i].query]
             ELSE ScanRewrites(p, rules, i + 1)

getRewritePath(uri, rules) ==
    ScanRewrites(addDefaultLocaleToPath(uri, i18n), rules, 1)

\* rewrite.ts isExternalRewrite
isExternalRewrite(p) == p.origin # ""

\* rewrite lookup without the isRewrite guard
rewriteOfUnguarded(frame) == getRewritePath(frame.uri, rewrites)

\* const rewrite, page.ts:68 (Null stands for false, null and undefined)
rewriteOf(frame) ==
    IF frame.isRewrite THEN Null ELSE getRewritePath(frame.uri, rewrites)

\* a dynamic route template matches a path; a catch-all takes one or more segments
DynMatches(route, p) ==
    IF Len(route) > 0 /\ route[Len(route)].kind = "catchall"
    THEN /\ Len(p) >= Len(route)
         /\ \A i \in 1..(Len(route) - 1) : SegMatches(route[i], p[i])
    ELSE /\ Len(p) = Len(route)
         /\ \A i \in 1..Len(route) : SegMatches(route[i], p[i])

\* a lookup that gives the last route of the list that matches
matchDynamicRouteLast(localeUri, dynamic, i) ==
    LET hits == { k \in i..Len(dynamic) : DynMatches(dynamic[k], localeUri) }
    IN  IF hits = {} THEN [found |-> FALSE, route |-> << >>]
        ELSE [found |-> TRUE,
              route |-> dynamic[CHOOSE k \in hits : \A m \in hits : m <= k]]

\* match.ts matchDynamicRoute: the first route of the sorted list that matches
RECURSIVE matchDynamicRoute(_, _, _)
matchDynamicRoute(localeUri, dynamic, i) ==
    IF i > Len(dynamic) THEN [found |-> FALSE, route |-> << >>]
    ELSE IF DynMatches(dynamic[i], localeUri) THEN [found |-> TRUE, route |-> dynamic[i]]
    ELSE matchDynamicRoute(localeUri, dynamic, i + 1)

\* the dynamic lookups with html.dynamic consulted before ssr.dynamic
dynamicRouteHtmlFirst(localeUri, pgs) ==
    LET matched == matchDynamicRoute(localeUri, pgs.dynamic, 1)
        dynamic == matched.route
    IN  IF ~matched.found THEN handle404(pgs)
        ELSE IF dynamic \in pgs.ssg.dynamic THEN Static(pageHtml(localeUri))
        ELSE IF dynamic \in pgs.html.dynamic THEN Static(Entry("html.dynamic", dynamic))
        ELSE IF dynamic \in pgs.ssr.dynamic THEN Render(Entry("ssr.dynamic", dynamic))
        ELSE IF dynamic \in pgs.ssr.catchAll THEN Render(Entry("ssr.catchAll", dynamic))
        ELSE handle404(pgs)

\* page.ts:91-129
dynamicRoute(localeUri, pgs) ==
    LET matched == matchDynamicRoute(localeUri, pgs.dynamic, 1)
        dynamic == matched.route
    IN  IF ~matched.found THEN handle404(pgs)
        ELSE IF dynamic \in pgs.ssg.dynamic THEN Static(pageHtml(localeUri))
        ELSE IF dynamic \in pgs.ssr.dynamic THEN Render(Entry("ssr.dynamic", dynamic))
        ELSE IF dynamic \in pgs.html.dynamic THEN Static(Entry("html.dynamic", dynamic))
        ELSE IF dynamic \in pgs.ssr.catchAll THEN Render(Entry("ssr.catchAll", dynamic))
        ELSE handle404(pgs)

----------------------------------------------------------------------------
(* The manifests handlePageReq is run on *)

\* with i18n the build materializes every route under its locale prefix
Localized(route) == IF i18n THEN <<Lit(DefaultLocale)>> \o route ELSE route
LocalizedKey(key) == IF i18n THEN <<DefaultLocale>> \o key ELSE key

\* the page /a
KeyA == LocalizedKey(<<"a">>)
\* the dynamic routes /[id] and /[...slug]
RouteId == Localized(<<Param("id", "any")>>)
RouteSlug == Localized(<<[kind |-> "catchall", val |-> "slug", pat |-> "any"]>>)

DynamicBuckets == {"ssg", "ssr", "html", "catchAll"}

\* either no dynamic route at all, or /[id] held by the buckets o and
\* /[...slug] held by ssr.catchAll; pages.dynamic lists /[id] first, as the
\* build sorts it, or (a manifest of another origin) /[...slug] first
DynamicConfigs ==
    { [routes |-> << >>, owners |-> {}] }
    \cup { [routes |-> <<RouteId, RouteSlug>>, owners |-> o] :
               o \in {x \in SUBSET DynamicBuckets : Cardinality(x) <= 2} }
    \cup { [routes |-> <<RouteSlug, RouteId>>, owners |-> o] :
               o \in {x \in SUBSET DynamicBuckets : Cardinality(x) = 1} }

PageManifests ==
    { [html |-> [nonDynamic |-> h \cup n,
                 dynamic |-> IF "html" \in d.owners THEN {RouteId} ELSE {}],
       ssg  |-> [nonDynamic |-> g,
                 dynamic |-> IF "ssg" \in d.owners THEN {RouteId} ELSE {}],
       ssr  |-> [nonDynamic |-> r,
                 dynamic |-> IF "ssr" \in d.owners THEN {RouteId} ELSE {},
                 catchAll |-> (IF "catchAll" \in d.owners THEN {RouteId} ELSE {})
                              \cup (IF d.routes # << >> THEN {RouteSlug} ELSE {})],
       dynamic |-> d.routes] :
        h \in SUBSET {KeyA}, g \in SUBSET {KeyA}, r \in SUBSET {KeyA},
        n \in SUBSET {<<"404">>},
        d \in DynamicConfigs }

\* request URIs: /a /b /x/y
PageUris == { <<"a">>, <<"b">>, <<"x", "y">> }

\* with i18n the sources and destinations carry the locale parameter
LocalizedSource(src) ==
    IF i18n THEN <<Param("nextInternalLocale", "locale")>> \o src ELSE src
LocalizedDest(d) ==
    IF i18n /\ d.scheme = ""
    THEN [d EXCEPT !.toks = <<Param("nextInternalLocale", "any")>> \o d.toks]
    ELSE d

Rewrite(src, d, q) ==
    [source |-> LocalizedSource(src), destination |-> LocalizedDest(d), query |-> q]

\* rewrites: /b -> /a   /a -> /b   /b -> /b?x=1   /:slug -> https://example.com
RewriteRules ==
    { Rewrite(<<Lit("b")>>, Dest("", "", <<Lit("a")>>, FALSE), Undefined),
      Rewrite(<<Lit("a")>>, Dest("", "", <<Lit("b")>>, FALSE), Undefined),
      Rewrite(<<Lit("b")>>, Dest("", "", <<Lit("b")>>, FALSE), "x=1"),
      Rewrite(<<Param("slug", "any")>>, Dest("https", "example.com", << >>, FALSE),
              Undefined) }

Frame(uri, isRewrite) == [uri |-> uri, isRewrite |-> isRewrite, querystring |-> Undefined]

PageInit ==
    /\ i18n \in BOOLEAN
    /\ requestUri \in PageUris
    /\ RedirectIdle
    /\ BuildIdle
    /\ SlashIdle
    /\ ResponseIdle
    /\ pages \in PageManifests
    /\ rewrites \in SeqsUpTo(RewriteRules, MaxRewrites)
    /\ isPreview \in BOOLEAN
    /\ \E isRewrite \in BOOLEAN : stack = <<Frame(requestUri, isRewrite)>>
    /\ ppc = "call"
    /\ ret = Null
    /\ calls = 1
    /\ lookups = [rewrite |-> 0, dynamic |-> 0]

Top == stack[Len(stack)]

\* where a returning call goes: back into its caller, or out of handlePageReq
Returning(depth) == IF depth = 1 THEN "done" ELSE "return"

\* a rewrite lookup happens when the guard !isRewrite lets it (page.ts:68)
RewriteLookups(frame) == IF rewriteOf(frame) = Null /\ frame.isRewrite THEN 0 ELSE 1

\* page.ts:46-66
PageNonDynamic ==
    /\ ppc = "call"
    /\ nonDynamicRoute(LocaleUri(Top.uri), pages, isPreview) # Null
    /\ ret' = nonDynamicRoute(LocaleUri(Top.uri), pages, isPreview)
    /\ ppc' = Returning(Len(stack))
    /\ UNCHANGED <<pages, rewrites, isPreview, stack, calls, lookups>>
    /\ UNCHANGED <<redirVars, buildVars, slashVars, responseVars>>

\* page.ts:68-77
PageRewriteExternal ==
    /\ ppc = "call"
    /\ nonDynamicRoute(LocaleUri(Top.uri), pages, isPreview) = Null
    /\ rewriteOf(Top) # Null
    /\ isExternalRewrite(rewriteOf(Top).path)
    /\ ret' = External(rewriteOf(Top).path, rewriteOf(Top).querystring)
    /\ ppc' = Returning(Len(stack))
    /\ lookups' = [lookups EXCEPT !.rewrite = @ + 1]
    /\ UNCHANGED <<pages, rewrites, isPreview, stack, calls>>
    /\ UNCHANGED <<redirVars, buildVars, slashVars, responseVars>>

\* page.ts:68-84, the recursive call
PageRewriteInternal ==
    /\ ppc = "call"
    /\ Len(stack) < MaxDepth
    /\ nonDynamicRoute(LocaleUri(Top.uri), pages, isPreview) = Null
    /\ rewriteOf(Top) # Null
    /\ ~isExternalRewrite(rewriteOf(Top).path)
    /\ stack' = Append([stack EXCEPT ![Len(stack)].querystring = rewriteOf(Top).querystring],
                       Frame(rewriteOf(Top).path.segs, TRUE))
    /\ calls' = calls + 1
    /\ lookups' = [lookups EXCEPT !.rewrite = @ + 1]
    /\ UNCHANGED <<pages, rewrites, isPreview, ppc, ret>>
    /\ UNCHANGED <<redirVars, buildVars, slashVars, responseVars>>

\* page.ts:91-129
PageDynamic ==
    /\ ppc = "call"
    /\ nonDynamicRoute(LocaleUri(Top.uri), pages, isPreview) = Null
    /\ rewriteOf(Top) = Null
    /\ ret' = dynamicRoute(LocaleUri(Top.uri), pages)
    /\ ppc' = Returning(Len(stack))
    /\ lookups' = [rewrite |-> lookups.rewrite + RewriteLookups(Top),
                   dynamic |-> lookups.dynamic + 1]
    /\ UNCHANGED <<pages, rewrites, isPreview, stack, calls>>
    /\ UNCHANGED <<redirVars, buildVars, slashVars, responseVars>>

\* page.ts:85-88, the recursive call has returned
PageRewriteReturn ==
    /\ ppc = "return"
    /\ Len(stack) > 1
    /\ stack' = SubSeq(stack, 1, Len(stack) - 1)
    /\ ret' = WithQuery(ret, stack[Len(stack) - 1].querystring)
    /\ ppc' = Returning(Len(stack) - 1)
    /\ UNCHANGED <<pages, rewrites, isPreview, calls, lookups>>
    /\ UNCHANGED <<redirVars, buildVars, slashVars, responseVars>>

PageNextStep ==
    \/ PageNonDynamic
    \/ PageRewriteExternal
    \/ PageRewriteInternal
    \/ PageDynamic
    \/ PageRewriteReturn

SpecPage == PageInit /\ [][PageNextStep]_vars

----------------------------------------------------------------------------
(* Claims about handlePageReq *)

\* the normalized form of the request path of the outermost call
TopLocaleUri == LocaleUri(requestUri)

\* the non-dynamic buckets that hold the key
BucketsOf(key) == {b \in {"html", "ssg", "ssr"} : key \in pages[b].nonDynamic}

\* the decision of the non-dynamic entry of bucket b under the key
EntryDecision(b, key) ==
    CASE b = "html" -> Static(Entry("html.nonDynamic", key))
      [] b = "ssg"  -> Static(pageHtml(key))
      [] b = "ssr"  -> Render(Entry("ssr.nonDynamic", key))

\* the outermost call returned from the non-dynamic step, nothing else was consulted
ResolvedNonDynamic(b) ==
    /\ ret = EntryDecision(b, TopLocaleUri)
    /\ calls = 1
    /\ lookups = [rewrite |-> 0, dynamic |-> 0]

\* C4 as claimed: a path whose normalized form is a key of exactly one
\* non-dynamic bucket gets the decision of that entry, without rewrites or
\* dynamic routes being consulted, for every isPreview and isRewrite.
C4_NonDynamicAlways ==
    ppc = "done" =>
        \A b \in {"html", "ssg", "ssr"} :
            BucketsOf(TopLocaleUri) = {b} => ResolvedNonDynamic(b)

\* C4 as amended: the same for an entry of html.nonDynamic or ssr.nonDynamic,
\* and for an entry of ssg.nonDynamic when isPreview is false; with isPreview
\* true a key held by ssg.nonDynamic alone is not resolved by the non-dynamic
\* step, and the rewrites or the dynamic routes are consulted.
C4_NonDynamicFirst ==
    ppc = "done" =>
        \A b \in {"html", "ssg", "ssr"} :
            BucketsOf(TopLocaleUri) = {b} =>
                IF b = "ssg" /\ isPreview
                THEN lookups.rewrite + lookups.dynamic >= 1
                ELSE ResolvedNonDynamic(b)

\* an SSR page wins over a rewrite rule and a dynamic route that match its path
C4_Witness ==
    /\ ppc = "done"
    /\ BucketsOf(TopLocaleUri) = {"ssr"}
    /\ matchDynamicRoute(TopLocaleUri, pages.dynamic, 1).found
    /\ getRewritePath(requestUri, rewrites) # Null
    /\ ~stack[1].isRewrite
    /\ ret = Render(Entry("ssr.nonDynamic", TopLocaleUri))

IsStaticFile(r, file) == "isStatic" \in DOMAIN r /\ r.file = file

\* the path is matched by an SSG entry, non-dynamic or dynamic
SsgMatched(localeUri) ==
    \/ localeUri \in pages.ssg.nonDynamic
    \/ LET m == matchDynamicRoute(localeUri, pages.dynamic, 1)
       IN  m.found /\ m.route \in pages.ssg.dynamic

\* C5: with isPreview true, a path matched by an SSG entry (a key of
\* ssg.nonDynamic or a dynamic route of ssg.dynamic) is never served as the
\* static file pageHtml(path).
C5_PreviewNeverStaticSsg ==
    (ppc = "done" /\ isPreview /\ calls = 1 /\ SsgMatched(TopLocaleUri))
        => ~IsStaticFile(ret, pageHtml(TopLocaleUri))

\* every step of handlePageReq brings it closer to its return
Measure == 3 * (MaxDepth - calls) + (IF ppc = "call" THEN 2 ELSE 0) + Len(stack)

RewriteDepthBounded ==
    ppc # "idle" =>
        /\ calls <= 2
        /\ Len(stack) <= 2
        /\ lookups.rewrite <= 1
        /\ stack[1].isRewrite => (calls = 1 /\ lookups.rewrite = 0)
        /\ Len(stack) = 2 => (stack[2].isRewrite /\ ~stack[1].isRewrite)
        /\ ppc # "done" => ENABLED PageNextStep

\* C6: handlePageReq calls itself at most once per request, the inner call
\* (isRewrite = true) makes no rewrite lookup, and every call returns: no
\* step is stuck and every step decreases a measure that is bounded below,
\* for every rewrite table, cyclic ones included.
C6_RewriteOneLevel ==
    /\ []RewriteDepthBounded
    /\ [][Measure' < Measure /\ Measure' >= 0]_vars

\* /b is rewritten to /a and /a to /b: one recursive call, then the result
C6_Witness ==
    /\ ppc = "done"
    /\ calls = 2
    /\ ~stack[1].isRewrite
    /\ getRewritePath(requestUri, rewrites) # Null
    /\ getRewritePath(getRewritePath(requestUri, rewrites).path.segs, rewrites) # Null
    /\ getRewritePath(getRewritePath(requestUri, rewrites).path.segs, rewrites).path.segs
           = requestUri

DecisionShapes ==
    { {"isData", "isStatic", "file"}, {"isData", "isStatic", "file", "querystring"},
      {"isData", "isRender", "page"}, {"isData", "isRender", "page", "querystring"},
      {"isExternal", "path", "querystring"} }

\* nothing resolves the path of the outermost call
NothingResolves ==
    /\ BucketsOf(TopLocaleUri) \in {{}, {"ssg"}}
    /\ "ssg" \in BucketsOf(TopLocaleUri) => isPreview
    /\ stack[1].isRewrite \/ getRewritePath(requestUri, rewrites) = Null
    /\ LET m == matchDynamicRoute(TopLocaleUri, pages.dynamic, 1)
       IN  m.found =>
             /\ m.route \notin pages.ssg.dynamic
             /\ m.route \notin pages.ssr.dynamic
             /\ m.route \notin pages.html.dynamic
             /\ m.route \notin pages.ssr.catchAll

\* C7: handlePageReq returns one well-formed decision (static file, render
\* or external proxy) and is never stuck; when no non-dynamic entry, no
\* rewrite and no dynamic route resolves the path, the decision is the static
\* file pages/404.html if html.nonDynamic has the key /404, and the render of
\* pages/_error.js otherwise.
C7_AlwaysADecision ==
    /\ ppc \in {"return", "done"} => DOMAIN ret \in DecisionShapes
    /\ ppc = "call" => ENABLED PageNextStep
    /\ (ppc = "done" /\ NothingResolves) =>
          ret = IF <<"404">> \in pages.html.nonDynamic
                THEN [isData |-> FALSE, isStatic |-> TRUE, file |-> File(<<"404">>, "html")]
                ELSE [isData |-> FALSE, isRender |-> TRUE, page |-> File(<<"_error">>, "js")]

\* /[id] matches the path but no bucket holds it: the custom 404 page is served
C7_Witness ==
    /\ ppc = "done"
    /\ NothingResolves
    /\ matchDynamicRoute(TopLocaleUri, pages.dynamic, 1).found
    /\ <<"404">> \in pages.html.nonDynamic
    /\ ret = Static(File(<<"404">>, "html"))

----------------------------------------------------------------------------
(* build/index.ts: prepareBuildManifests *)

(* A JavaScript object with string keys is a sequence of [key, val] entries in
   insertion order, its keys distinct: for..in and Object.entries go through
   it in this order, and assigning to a key it has keeps the key's place. *)
KeySet(obj) == {obj[i].key : i \in 1..Len(obj)}
Get(obj, key) == obj[CHOOSE i \in 1..Len(obj) : obj[i].key = key].val
Put(obj, key, val) ==
    IF key \in KeySet(obj)
    THEN [i \in 1..Len(obj) |->
            IF obj[i].key = key THEN [key |-> key, val |-> val] ELSE obj[i]]
    ELSE Append(obj, [key |-> key, val |-> val])

\* { ...a, ...b }
RECURSIVE Spread(_, _)
Spread(a, b) ==
    IF b = << >> THEN a
    ELSE Spread(Put(a, b[1].key, b[1].val), Tail(b))

\* a file "pages/<segments>.<ext>"
PageFile(segs, ext) == [segs |-> segs, ext |-> ext]

\* index.ts:67-68
isHtmlPage(file) == file.ext = "html"
isApiPage(file) == Len(file.segs) > 0 /\ file.segs[1] = "api"

\* file.replace("pages/", `pages/${locale}/`)
LocalizedFile(file, locale) == [file EXCEPT !.segs = <<locale>> \o @]

\* segments of a route: [id], [...slug] and [[...slug]] are dynamic
OptionalCatchAllSegs == {"[[...slug]]"}
CatchAllSegs == {"[...slug]"}
DynamicSegs == {"[id]"} \cup CatchAllSegs \cup OptionalCatchAllSegs

\* isDynamicRoute.ts
isOptionalCatchAllRoute(route) == \E i \in 1..Len(route) : route[i] \in OptionalCatchAllSegs
isDynamicRoute(route) == \E i \in 1..Len(route) : route[i] \in DynamicSegs

\* route.split("/[[")[0] || "/"
OptionalBaseRoute(route) ==
    SubSeq(route, 1,
           (CHOOSE i \in 1..Len(route) :
                /\ route[i] \in OptionalCatchAllSegs
                /\ \A j \in 1..(i - 1) : route[j] \notin OptionalCatchAllSegs) - 1)

\* pathToRegexStr.ts: the regular expression of a route
pathToRegexStr(route) == [regexOf |-> route]

Dyn(file, route) == [file |-> file, regex |-> pathToRegexStr(route)]

\* index.ts:70-126, one entry of pagesManifest
ClassifyEntry(c, route, pageFile) ==
    LET isOptionalCatchAllDynamicRoute == isOptionalCatchAllRoute(route)
        isOtherDynamicRoute == ~isOptionalCatchAllDynamicRoute /\ isDynamicRoute(route)
        class == IF isHtmlPage(pageFile) THEN "html"
                 ELSE IF isApiPage(pageFile) THEN "api" ELSE "ssr"
    IN  IF isOtherDynamicRoute
        THEN [c EXCEPT ![class].dynamic = Put(@, route, Dyn(pageFile, route))]
        ELSE IF isOptionalCatchAllDynamicRoute
        THEN [c EXCEPT ![class].dynamic = Put(@, route, Dyn(pageFile, route)),
                       ![class].nonDynamic = Put(@, OptionalBaseRoute(route), pageFile)]
        ELSE [c EXCEPT ![class].nonDynamic = Put(@, route, pageFile)]

RECURSIVE Classify(_, _)
Classify(c, entries) ==
    IF entries = << >> THEN c
    ELSE Classify(ClassifyEntry(c, entries[1].key, entries[1].val), Tail(entries))

EmptyBucket == [nonDynamic |-> << >>, dynamic |-> << >>]

\* str.replace(`/${locale}/`, "/") on the segments of a path: the first
\* segment that is the locale and has a segment after it is taken out
RemoveLocaleSegment(segs, locale) ==
    IF \E i \in 1..(Len(segs) - 1) : segs[i] = locale
    THEN LET i == CHOOSE k \in 1..(Len(segs) - 1) :
                      segs[k] = locale /\ \A j \in 1..(k - 1) : segs[j] # locale
         IN  SubSeq(segs, 1, i - 1) \o SubSeq(segs, i + 1, Len(segs))
    ELSE segs

\* srcRoute: null
NoRoute == <<"<null>">>

\* an SsgRoute; dataRoute is /_next/data/<buildId>/<dataRoute segments>.json
SsgRoute(srcRoute, dataRoute) ==
    [initialRevalidateSeconds |-> "false", srcRoute |-> srcRoute, dataRoute |-> dataRoute]

\* index.ts:131-137: the route object of the prerender manifest after the loop
NormalizedSsgRoute(ssgRoute) ==
    IF i18n
    THEN [ssgRoute EXCEPT !.dataRoute = RemoveLocaleSegment(@, DefaultLocale)]
    ELSE ssgRoute

\* index.ts:129-142
RECURSIVE AddSsgRoutes(_, _)
AddSsgRoutes(nonDynamic, routes) ==
    IF routes = << >> THEN nonDynamic
    ELSE LET route == routes[1].key
             normalizedRoute == IF i18n THEN RemoveLocaleSegment(route, DefaultLocale)
                                ELSE route
         IN  AddSsgRoutes(Put(nonDynamic, normalizedRoute, NormalizedSsgRoute(routes[1].val)),
                          Tail(routes))

\* index.ts:188-192
IsLocalePrefixed(key) == \E i \in 1..Len(Locales) : Len(key) >= 1 /\ key[1] = Locales[i]

\* index.ts:194 (and 202, 220, 225, 239, 272)
NewKey(locale, key) == IF key = << >> THEN <<locale>> ELSE <<locale>> \o key

\* index.ts:186-199: the labelled break leaves the loop over the keys
RECURSIVE HtmlNonDynamicLoop(_, _, _)
HtmlNonDynamicLoop(acc, entries, locale) ==
    IF entries = << >> THEN acc
    ELSE IF IsLocalePrefixed(entries[1].key) THEN acc
    ELSE HtmlNonDynamicLoop(
             Put(acc, NewKey(locale, entries[1].key), LocalizedFile(entries[1].val, locale)),
             Tail(entries), locale)

\* index.ts:201-217
RECURSIVE HtmlDynamicLoop(_, _, _)
HtmlDynamicLoop(acc, entries, locale) ==
    IF entries = << >> THEN acc
    ELSE LET newKey == NewKey(locale, entries[1].key)
         IN  HtmlDynamicLoop(
                 Put(acc, newKey, Dyn(LocalizedFile(entries[1].val.file, locale), newKey)),
                 Tail(entries), locale)

\* index.ts:219-222
RECURSIVE SsrNonDynamicLoop(_, _, _)
SsrNonDynamicLoop(acc, entries, locale) ==
    IF entries = << >> THEN acc
    ELSE SsrNonDynamicLoop(Put(acc, NewKey(locale, entries[1].key), entries[1].val),
                           Tail(entries), locale)

\* index.ts:224-236
RECURSIVE SsrDynamicLoop(_, _, _)
SsrDynamicLoop(acc, entries, locale) ==
    IF entries = << >> THEN acc
    ELSE LET newKey == NewKey(locale, entries[1].key)
         IN  SsrDynamicLoop(Put(acc, newKey, Dyn(entries[1].val.file, newKey)),
                            Tail(entries), locale)

\* index.ts:253-268
LocalizedSsgRoute(key, ssgRoute, locale) ==
    [ssgRoute EXCEPT
        !.dataRoute = IF key = << >>
                      THEN (IF @ = <<"index">> THEN <<locale>> ELSE @)
                      ELSE <<locale>> \o @,
        !.srcRoute = IF @ # NoRoute THEN <<locale>> \o @ ELSE @]

\* index.ts:238-269
RECURSIVE SsgNonDynamicLoop(_, _, _)
SsgNonDynamicLoop(acc, entries, locale) ==
    IF entries = << >> THEN acc
    ELSE SsgNonDynamicLoop(
             Put(acc, NewKey(locale, entries[1].key),
                 LocalizedSsgRoute(entries[1].key, entries[1].val, locale)),
             Tail(entries), locale)

\* a DynamicSsgRoute: the route its regexes and data route were made for and
\* the locale segments inserted into them
DynamicSsgRoute(route) == [route |-> route, locales |-> << >>]

\* index.ts:271-293
RECURSIVE SsgDynamicLoop(_, _, _)
SsgDynamicLoop(acc, entries, locale) ==
    IF entries = << >> THEN acc
    ELSE SsgDynamicLoop(
             Put(acc, NewKey(locale, entries[1].key),
                 [entries[1].val EXCEPT !.locales = <<locale>> \o @]),
             Tail(entries), locale)

\* index.ts:338-344
RECURSIVE SelectRoutes(_, _)
SelectRoutes(entries, catchAll) ==
    IF entries = << >> THEN << >>
    ELSE LET key == entries[1].key
             \* key.includes("[...")
             isCatchAll == \E i \in 1..Len(key) : key[i] \in CatchAllSegs \cup OptionalCatchAllSegs
         IN  (IF isCatchAll = catchAll THEN <<entries[1]>> ELSE << >>)
             \o SelectRoutes(Tail(entries), catchAll)

\* sortedRoutes.ts: at the first segment where two routes differ a static
\* segment goes before a dynamic one, a dynamic one before a catch-all
SegRank(seg) ==
    IF seg \in OptionalCatchAllSegs THEN 3
    ELSE IF seg \in CatchAllSegs THEN 2
    ELSE IF seg \in DynamicSegs THEN 1 ELSE 0

RECURSIVE Before(_, _)
Before(a, b) ==
    IF a = << >> \/ b = << >> THEN FALSE
    ELSE IF SegRank(a[1]) # SegRank(b[1]) THEN SegRank(a[1]) < SegRank(b[1])
    ELSE Before(Tail(a), Tail(b))

RECURSIVE getSortedRoutes(_)
getSortedRoutes(routes) ==
    IF routes = {} THEN << >>
    ELSE LET first == CHOOSE r \in routes : \A o \in routes : ~Before(o, r)
         IN  <<first>> \o getSortedRoutes(routes \ {first})

\* index.ts:353-363
SortedDynamic(pgs) ==
    LET sortedRoutes == getSortedRoutes(KeySet(pgs.html.dynamic) \cup KeySet(pgs.ssg.dynamic)
                            \cup KeySet(pgs.ssr.dynamic) \cup KeySet(pgs.ssr.catchAll))
    IN  [i \in 1..Len(sortedRoutes) |->
            [route |-> sortedRoutes[i], regex |-> pathToRegexStr(sortedRoutes[i])]]

----------------------------------------------------------------------------
(* The inputs prepareBuildManifests is run on *)

\* the file the build emits for a route
FileOf(route, ext) == PageFile(IF route = << >> THEN <<"index">> ELSE route, ext)

\* pagesManifest entries: / /a /c /en/a /[id] /[[...slug]] as HTML or JS
\* page, and the API route /api/x
PageEntries ==
    { [key |-> r, val |-> FileOf(r, e)] :
        r \in { << >>, <<"a">>, <<"c">>, <<"en", "a">>, <<"[id]">>, <<"[[...slug]]">> },
        e \in {"html", "js"} }
    \cup { [key |-> <<"api", "x">>, val |-> FileOf(<<"api", "x">>, "js")] }

\* prerenderManifest.routes entries: /b /en/b /nl/b
PrerenderEntries ==
    { [key |-> r, val |-> SsgRoute(NoRoute, r)] :
        r \in { <<"b">>, <<"en", "b">>, <<"nl", "b">> } }

\* prerenderManifest.dynamicRoutes: none, or /[id]
PrerenderDynamic ==
    { << >>, <<[key |-> <<"[id]">>, val |-> DynamicSsgRoute(<<"[id]">>)]>> }

DistinctKeys(obj) == Cardinality(KeySet(obj)) = Len(obj)

BuildInit ==
    /\ i18n \in BOOLEAN
    /\ requestUri = << >>
    /\ RedirectIdle
    /\ PageIdle
    /\ SlashIdle
    /\ ResponseIdle
    /\ pagesManifest \in {m \in SeqsUpTo(PageEntries, MaxPages) : DistinctKeys(m)}
    /\ \E rs \in {m \in SeqsUpTo(PrerenderEntries, MaxPrerender) : DistinctKeys(m)},
          ds \in PrerenderDynamic :
            prerenderManifest = [routes |-> rs, dynamicRoutes |-> ds]
    /\ bpc = "classify"
    /\ localeIdx = 0
    /\ htmlPages = EmptyBucket
    /\ ssrPages = EmptyBucket
    /\ ssgPages = EmptyBucket
    /\ apiPages = EmptyBucket
    /\ localePages = Null
    /\ pageManifest = Null

\* index.ts:70-126
BuildClassify ==
    /\ bpc = "classify"
    /\ LET c == Classify([html |-> EmptyBucket, api |-> EmptyBucket, ssr |-> EmptyBucket],
                         pagesManifest)
       IN  /\ htmlPages' = c.html
           /\ ssrPages' = c.ssr
           /\ apiPages' = c.api
    /\ bpc' = "prerender"
    /\ UNCHANGED <<pagesManifest, prerenderManifest, localeIdx, ssgPages, localePages,
                   pageManifest>>
    /\ UNCHANGED <<redirVars, pageVars, slashVars, responseVars>>

\* index.ts:128-149; the loop assigns to dataRoute of the caller's route objects
BuildPrerender ==
    /\ bpc = "prerender"
    /\ ssgPages' = [nonDynamic |-> AddSsgRoutes(<< >>, prerenderManifest.routes),
                    dynamic |-> Spread(<< >>, prerenderManifest.dynamicRoutes)]
    /\ prerenderManifest' =
          [prerenderManifest EXCEPT !.routes =
              [i \in 1..Len(@) |-> [@[i] EXCEPT !.val = NormalizedSsgRoute(@)]]]
    /\ IF i18n
       THEN /\ bpc' = "locales"
            /\ localeIdx' = 1
            /\ localePages' = [html |-> EmptyBucket, ssr |-> EmptyBucket, ssg |-> EmptyBucket]
       ELSE /\ bpc' = "split"
            /\ UNCHANGED <<localeIdx, localePages>>
    /\ UNCHANGED <<pagesManifest, htmlPages, ssrPages, apiPages, pageManifest>>
    /\ UNCHANGED <<redirVars, pageVars, slashVars, responseVars>>

\* index.ts:185-294, one iteration of the loop over the locales
BuildLocale ==
    /\ bpc = "locales"
    /\ localeIdx <= Len(Locales)
    /\ LET locale == Locales[localeIdx]
       IN  localePages' =
             [html |-> [nonDynamic |-> HtmlNonDynamicLoop(localePages.html.nonDynamic,
                                                          htmlPages.nonDynamic, locale),
                        dynamic |-> HtmlDynamicLoop(localePages.html.dynamic,
                                                    htmlPages.dynamic, locale)],
              ssr  |-> [nonDynamic |-> SsrNonDynamicLoop(localePages.ssr.nonDynamic,
                                                         ssrPages.nonDynamic, locale),
                        dynamic |-> SsrDynamicLoop(localePages.ssr.dynamic,
                                                   ssrPages.dynamic, locale)],
              ssg  |-> [nonDynamic |-> SsgNonDynamicLoop(localePages.ssg.nonDynamic,
                                                         ssgPages.nonDynamic, locale),
                        dynamic |-> SsgDynamicLoop(localePages.ssg.dynamic,
                                                   ssgPages.dynamic, locale)]]
    /\ localeIdx' = localeIdx + 1
    /\ bpc' = IF localeIdx = Len(Locales) THEN "merge" ELSE "locales"
    /\ UNCHANGED <<pagesManifest, prerenderManifest, htmlPages, ssrPages, ssgPages, apiPages,
                   pageManifest>>
    /\ UNCHANGED <<redirVars, pageVars, slashVars, responseVars>>

\* index.ts:296-330
Merged(base, localized) ==
    [nonDynamic |-> Spread(base.nonDynamic, localized.nonDynamic),
     dynamic |-> Spread(base.dynamic, localized.dynamic)]

BuildMerge ==
    /\ bpc = "merge"
    /\ pageManifest' = [ssr |-> Merged(ssrPages, localePages.ssr),
                        ssg |-> Merged(ssgPages, localePages.ssg),
                        html |-> Merged(htmlPages, localePages.html)]
    /\ bpc' = "split"
    /\ UNCHANGED <<pagesManifest, prerenderManifest, localeIdx, htmlPages, ssrPages, ssgPages,
                   apiPages, localePages>>
    /\ UNCHANGED <<redirVars, pageVars, slashVars, responseVars>>

\* index.ts:333-363
BuildSplitSort ==
    /\ bpc = "split"
    /\ LET pgs == IF i18n THEN pageManifest
                  ELSE [ssr |-> ssrPages, ssg |-> ssgPages, html |-> htmlPages]
           split == [html |-> pgs.html,
                     ssg  |-> pgs.ssg,
                     ssr  |-> [nonDynamic |-> pgs.ssr.nonDynamic,
                               dynamic |-> SelectRoutes(pgs.ssr.dynamic, FALSE),
                               catchAll |-> SelectRoutes(pgs.ssr.dynamic, TRUE)]]
       IN  pageManifest' = [html |-> split.html, ssg |-> split.ssg, ssr |-> split.ssr,
                            dynamic |-> SortedDynamic(split)]
    /\ bpc' = "done"
    /\ UNCHANGED <<pagesManifest, prerenderManifest, localeIdx, htmlPages, ssrPages, ssgPages,
                   apiPages, localePages>>
    /\ UNCHANGED <<redirVars, pageVars, slashVars, responseVars>>

BuildNextStep ==
    \/ BuildClassify
    \/ BuildPrerender
    \/ BuildLocale
    \/ BuildMerge
    \/ BuildSplitSort

SpecBuild == BuildInit /\ [][BuildNextStep]_vars

----------------------------------------------------------------------------
(* Claims about the locale materialization of prepareBuildManifests *)

BucketNames == {"html", "ssr", "ssg"}
KindNames == {"nonDynamic", "dynamic"}

\* the buckets as they are before the locale expansion (index.ts:61-63)
BaseBucket(b, kind) ==
    CASE b = "html" -> htmlPages[kind]
      [] b = "ssr"  -> ssrPages[kind]
      [] b = "ssg"  -> ssgPages[kind]

\* the bucket of the returned page manifest; the SSR dynamic routes are split
\* over ssr.dynamic and ssr.catchAll
FinalBucket(b, kind) ==
    IF b = "ssr" /\ kind = "dynamic"
    THEN pageManifest.ssr.dynamic \o pageManifest.ssr.catchAll
    ELSE pageManifest[b][kind]

Expanded == bpc = "done" /\ i18n

\* C8: every key of an html, ssr or ssg bucket before the locale expansion
\* is in the final page manifest with the value it had; no synthesized locale
\* duplicate replaces a base entry.
C8_LocaleExpansionAdditive ==
    Expanded =>
        \A b \in BucketNames, kind \in KindNames :
            \A i \in 1..Len(BaseBucket(b, kind)) :
                LET e == BaseBucket(b, kind)[i]
                IN  /\ e.key \in KeySet(FinalBucket(b, kind))
                    /\ Get(FinalBucket(b, kind), e.key) = e.val

\* C9: for every locale L and every key K of an html, ssr or ssg bucket that
\* is not locale-prefixed, the final manifest has the duplicate /L (K = /)
\* or /L<K>, whatever the insertion order and the other entries of the bucket.
C9_EveryLocaleDuplicate ==
    Expanded =>
        \A b \in BucketNames, kind \in KindNames :
            \A i \in 1..Len(BaseBucket(b, kind)), l \in 1..Len(Locales) :
                LET key == BaseBucket(b, kind)[i].key
                IN  ~IsLocalePrefixed(key) =>
                        (IF key = << >> THEN <<Locales[l]>> ELSE <<Locales[l]>> \o key)
                            \in KeySet(FinalBucket(b, kind))

\* C10: an entry whose key is prefixed with a configured locale gets no
\* synthesized duplicate, in every html, ssr and ssg bucket.
C10_NoDoublePrefix ==
    Expanded =>
        \A b \in BucketNames, kind \in KindNames :
            \A i \in 1..Len(BaseBucket(b, kind)), l \in 1..Len(Locales) :
                LET key == BaseBucket(b, kind)[i].key
                IN  IsLocalePrefixed(key) =>
                        (<<Locales[l]>> \o key) \notin KeySet(localePages[b][kind])

----------------------------------------------------------------------------
(* getTrailingSlashPath (redirect.ts:144-170)                              *)
(*                                                                         *)
(* The function works on the characters of request.uri, so here a URI is   *)
(* the sequence of its characters: "/a/" is <<"/", "a", "/">> and "" is    *)
(* << >>.                                                                  *)

UriChars == {"/", "a", "b"}

\* the function returned undefined (it fell off its end)
NoRedirect == <<"<undefined>">>

\* uri.endsWith("/")
endsWith(str, c) == Len(str) > 0 /\ str[Len(str)] = c

\* uri.slice(0, -1)
sliceLast(str) == IF Len(str) = 0 THEN << >> ELSE SubSeq(str, 1, Len(str) - 1)

\* /^\/[^/]/.test(request.uri)
testSlashThenOther(str) == Len(str) >= 2 /\ str[1] = "/" /\ str[2] # "/"

getTrailingSlashPathPageOnly(str, policy, file) ==
    IF testSlashThenOther(str)
    THEN IF ~policy /\ endsWith(str, "/") THEN sliceLast(str)
         ELSE IF policy /\ ~endsWith(str, "/") THEN str \o <<"/">>
         ELSE NoRedirect
    ELSE NoRedirect

getTrailingSlashPathToggle(str, policy, file) ==
    IF file
    THEN IF endsWith(str, "/") THEN sliceLast(str) ELSE NoRedirect
    ELSE IF testSlashThenOther(str)
         THEN IF endsWith(str, "/") THEN sliceLast(str) ELSE str \o <<"/">>
         ELSE NoRedirect

getTrailingSlashPath(str, policy, file) ==
    IF file
    THEN IF endsWith(str, "/") THEN sliceLast(str) ELSE NoRedirect
    ELSE IF testSlashThenOther(str)
         THEN IF ~policy /\ endsWith(str, "/") THEN sliceLast(str)
              ELSE IF policy /\ ~endsWith(str, "/") THEN str \o <<"/">>
              ELSE NoRedirect
         ELSE NoRedirect

\* request URIs: a request URI starts with /
SlashUris ==
    { u \in SeqsUpTo(UriChars, MaxUriLen) : Len(u) > 0 /\ u[1] = "/" }

SlashInit ==
    /\ slashUri \in SlashUris
    /\ trailingSlash \in BOOLEAN
    /\ isFile \in BOOLEAN
    /\ slashSeen = << >>
    /\ slashResult = << >>
    /\ spc = "request"
    /\ i18n = FALSE
    /\ requestUri = << >>
    /\ RedirectIdle
    /\ PageIdle
    /\ BuildIdle
    /\ ResponseIdle

\* the handler calls getTrailingSlashPath for the request
SlashCall ==
    /\ spc = "request"
    /\ slashResult' = getTrailingSlashPath(slashUri, trailingSlash, isFile)
    /\ spc' = "responded"
    /\ UNCHANGED <<slashUri, trailingSlash, isFile, slashSeen>>
    /\ UNCHANGED <<redirVars, pageVars, buildVars, responseVars>>

\* a redirect was returned: the client requests the URI it was redirected to
SlashFollow ==
    /\ spc = "responded"
    /\ slashResult # NoRedirect
    /\ Len(slashSeen) < MaxHops
    /\ slashSeen' = Append(slashSeen, slashUri)
    /\ slashUri' = slashResult
    /\ spc' = "request"
    /\ UNCHANGED <<trailingSlash, isFile, slashResult>>
    /\ UNCHANGED <<redirVars, pageVars, buildVars, responseVars>>

\* no redirect was returned: the request is handled as it is
SlashSettle ==
    /\ spc = "responded"
    /\ slashResult = NoRedirect
    /\ spc' = "settled"
    /\ UNCHANGED <<slashUri, trailingSlash, isFile, slashSeen, slashResult>>
    /\ UNCHANGED <<redirVars, pageVars, buildVars, responseVars>>

SlashNextStep ==
    \/ SlashCall
    \/ SlashFollow
    \/ SlashSettle

SpecSlash == SlashInit /\ [][SlashNextStep]_vars

\* every request is answered and every redirect is followed
FairSpecSlash == SpecSlash /\ WF_vars(SlashNextStep)

----------------------------------------------------------------------------
(* Claims about getTrailingSlashPath *)

\* the request URI starts with / followed by a character that is not /
PageLike == Len(slashUri) >= 2 /\ slashUri[1] = "/" /\ slashUri[2] # "/"

EndsInSlash == Len(slashUri) > 0 /\ slashUri[Len(slashUri)] = "/"

WithoutLastSlash == SubSeq(slashUri, 1, Len(slashUri) - 1)

\* the three cases in which the specification has a redirect
FileStrips == isFile /\ EndsInSlash
PageStrips == ~isFile /\ PageLike /\ ~trailingSlash /\ EndsInSlash
PageAppends == ~isFile /\ PageLike /\ trailingSlash /\ ~EndsInSlash

\* C11: getTrailingSlashPath normalizes by request kind: a file-like request
\* whose URI ends in / is redirected to the URI without its last slash
\* whatever the policy; a page request whose URI starts with / and a
\* non-slash character follows manifest.trailingSlash in both directions; in
\* every other case no redirect is returned.
C11_NormalizesByKind ==
    spc = "responded" =>
        /\ FileStrips => slashResult = WithoutLastSlash
        /\ PageStrips => slashResult = WithoutLastSlash
        /\ PageAppends => slashResult = slashUri \o <<"/">>
        /\ ~(FileStrips \/ PageStrips \/ PageAppends) => slashResult = NoRedirect

\* a file-like request with a trailing slash under the policy that adds
\* slashes was answered with the URI without the slash
C11_Witness ==
    /\ spc = "responded"
    /\ isFile
    /\ trailingSlash
    /\ slashUri = <<"/", "a", "/">>
    /\ slashResult = <<"/", "a">>

\* C12: for the bare root path / the result is undefined, for every
\* trailing-slash policy and for page and file-like requests alike.
C12_RootNeverRedirected ==
    (spc = "responded" /\ slashUri = <<"/">>) => slashResult = NoRedirect

\* no request URI was requested twice
NoRevisit ==
    /\ \A j, k \in 1..Len(slashSeen) : j # k => slashSeen[j] # slashSeen[k]
    /\ \A j \in 1..Len(slashSeen) : slashSeen[j] # slashUri

\* C18: following the redirects of getTrailingSlashPath from any request URI
\* reaches, after finitely many steps, a URI that is not redirected, and no
\* URI is visited twice.
C18_RedirectsCannotLoop ==
    []NoRevisit /\ <>(spc = "settled")

\* a chain of two redirects that came to rest
C18_Witness ==
    /\ spc = "settled"
    /\ Len(slashSeen) = 2
    /\ slashSeen[1] = <<"/", "a", "/", "/">>
    /\ slashUri = <<"/", "a">>

----------------------------------------------------------------------------
(* createRedirectResponse (redirect.ts:12-55)                              *)
(*                                                                         *)
(* uri, querystring and the header values are sequences of characters.     *)

ResponseChars == {"/", "a", "?"}

\* the argument querystring is undefined
NoQuery == <<"<undefined>">>

\* the value is falsy as a string: undefined or ""
Falsy(str) == str = NoQuery \/ str = << >>

\* positions of the separator in the string
Positions(str, sep) == { k \in 1..Len(str) : str[k] = sep }

Min(S) == CHOOSE k \in S : \A m \in S : k <= m

\* str.split(sep) for a separator of one character
RECURSIVE split(_, _)
split(str, sep) ==
    IF Positions(str, sep) = {}
    THEN <<str>>
    ELSE LET k == Min(Positions(str, sep))
         IN  <<SubSeq(str, 1, k - 1)>> \o split(SubSeq(str, k + 1, Len(str)), sep)

\* const [uriPath, uriQuery] = uri.split("?") and the template string
joinQuery(str, query) ==
    LET parts == split(str, "?")
        uriPath == parts[1]
        uriQuery == IF Len(parts) >= 2 THEN parts[2] ELSE NoQuery
    IN  uriPath \o <<"?">> \o query
            \o (IF Falsy(uriQuery) THEN << >> ELSE <<"&">> \o uriQuery)

\* let location (redirect.ts:17-25)
locationOf(str, query) ==
    IF Falsy(query) THEN str ELSE joinQuery(str, query)

\* STATUS_CODES of node's http module, for the codes of ResponseStatusCodes
STATUS_CODES(code) ==
    CASE code = 301 -> "Moved Permanently"
      [] code = 302 -> "Found"
      [] code = 307 -> "Temporary Redirect"
      [] code = 308 -> "Permanent Redirect"
      [] OTHER -> ""

RefreshPrefix == <<"0", ";", "u", "r", "l", "=">>

createRedirectResponse(str, query, code) ==
    LET location == locationOf(str, query)
        refresh == IF code = 308
                   THEN << [key |-> "Refresh", value |-> RefreshPrefix \o location] >>
                   ELSE << >>
    IN  [isRedirect |-> TRUE,
         status |-> code,
         statusDescription |-> STATUS_CODES(code),
         headers |-> [location |-> << [key |-> "Location", value |-> location] >>,
                      refresh |-> refresh]]

\* redirect targets: they start with /
ResponseUris ==
    { u \in SeqsUpTo(ResponseChars, MaxUriLen) : Len(u) > 0 /\ u[1] = "/" }

Querystrings == { NoQuery, << >>, <<"q">> }

ResponseStatusCodes == {301, 302, 307, 308}

ResponseInit ==
    /\ respUri \in ResponseUris
    /\ respQuery \in Querystrings
    /\ respStatus \in ResponseStatusCodes
    /\ response = Null
    /\ cpc = "call"
    /\ i18n = FALSE
    /\ requestUri = << >>
    /\ RedirectIdle
    /\ PageIdle
    /\ BuildIdle
    /\ SlashIdle

ResponseCreate ==
    /\ cpc = "call"
    /\ response' = createRedirectResponse(respUri, respQuery, respStatus)
    /\ cpc' = "done"
    /\ UNCHANGED <<respUri, respQuery, respStatus>>
    /\ UNCHANGED <<redirVars, pageVars, buildVars, slashVars>>

ResponseNextStep == ResponseCreate

SpecResponse == ResponseInit /\ [][ResponseNextStep]_vars

----------------------------------------------------------------------------
(* Claims about createRedirectResponse *)

HasQuestionMark == \E k \in 1..Len(respUri) : respUri[k] = "?"

FirstQuestionMark == CHOOSE k \in 1..Len(respUri) :
                        respUri[k] = "?" /\ \A m \in 1..(k - 1) : respUri[m] # "?"

\* the path of the uri: what is before its first ?
PathOfUri ==
    IF HasQuestionMark THEN SubSeq(respUri, 1, FirstQuestionMark - 1) ELSE respUri

\* the query of the uri: what is after its first ?
QueryOfUri ==
    IF HasQuestionMark
    THEN SubSeq(respUri, FirstQuestionMark + 1, Len(respUri))
    ELSE << >>

ExpectedLocation ==
    IF Falsy(respQuery)
    THEN respUri
    ELSE PathOfUri \o <<"?">> \o respQuery
             \o (IF QueryOfUri = << >> THEN << >> ELSE <<"&">> \o QueryOfUri)

\* C13: createRedirectResponse returns isRedirect true, status equal to
\* statusCode and exactly one Location header; the Refresh list holds the
\* single entry 0;url=<location> iff statusCode is 308 and is empty
\* otherwise; the location is uri when querystring is empty, and otherwise
\* the path of uri, then ?, then querystring, then & and the uri's own query
\* when it has one.
C13_RedirectResponse ==
    cpc = "done" =>
        /\ response.isRedirect = TRUE
        /\ response.status = respStatus
        /\ Len(response.headers.location) = 1
        /\ response.headers.location[1].key = "Location"
        /\ response.headers.location[1].value = ExpectedLocation
        /\ response.headers.refresh =
               (IF respStatus = 308
                THEN << [key |-> "Refresh", value |-> RefreshPrefix \o ExpectedLocation] >>
                ELSE << >>)

----------------------------------------------------------------------------
(* Claims about the inputs of prepareBuildManifests *)

\* C14: prepareBuildManifests modifies none of its inputs: routesManifest,
\* pagesManifest, prerenderManifest and its route entries are the same after
\* every step of the call as before it.
C14_InputsUnmodified ==
    [][/\ i18n' = i18n
       /\ pagesManifest' = pagesManifest
       /\ prerenderManifest' = prerenderManifest]_vars

----------------------------------------------------------------------------
(* Claims about the dynamic routes of handlePageReq *)

\* the buckets a matched template is resolved against, in the claimed order
ResolutionOrder == <<"ssg.dynamic", "ssr.dynamic", "html.dynamic", "ssr.catchAll">>

BucketKeys(name) ==
    CASE name = "ssg.dynamic"  -> pages.ssg.dynamic
      [] name = "ssr.dynamic"  -> pages.ssr.dynamic
      [] name = "html.dynamic" -> pages.html.dynamic
      [] name = "ssr.catchAll" -> pages.ssr.catchAll

\* positions in ResolutionOrder of the buckets that hold the template
Holders(template) ==
    { k \in 1..Len(ResolutionOrder) : template \in BucketKeys(ResolutionOrder[k]) }

\* the decision the bucket gives for the template and the path
BucketDecision(name, template, localeUri) ==
    CASE name = "ssg.dynamic"  -> Static(pageHtml(localeUri))
      [] name = "ssr.dynamic"  -> Render(Entry("ssr.dynamic", template))
      [] name = "html.dynamic" -> Static(Entry("html.dynamic", template))
      [] name = "ssr.catchAll" -> Render(Entry("ssr.catchAll", template))

\* the template pages.dynamic gives for the path of the running call
MatchedTemplate == matchDynamicRoute(LocaleUri(Top.uri), pages.dynamic, 1)

\* the step is the dynamic lookup of the running call
DynamicLookupStep == ppc = "call" /\ lookups'.dynamic = lookups.dynamic + 1

\* C15: once a template of pages.dynamic is matched, it is resolved against
\* ssg.dynamic (static file), ssr.dynamic (render), html.dynamic (static
\* file), ssr.catchAll (render) in this order: the decision is that of the
\* earliest bucket of the order that holds the template.
C15_DynamicResolutionOrder ==
    [][(/\ DynamicLookupStep
        /\ MatchedTemplate.found
        /\ Holders(MatchedTemplate.route) # {})
       => ret' = BucketDecision(ResolutionOrder[Min(Holders(MatchedTemplate.route))],
                                MatchedTemplate.route, LocaleUri(Top.uri))]_vars

\* /[id] is held by ssr.dynamic and html.dynamic, /b was rendered by the
\* ssr.dynamic entry
C15_Witness ==
    /\ ppc = "done"
    /\ calls = 1
    /\ lookups.dynamic = 1
    /\ requestUri = <<"b">>
    /\ RouteId \in pages.ssr.dynamic
    /\ RouteId \in pages.html.dynamic
    /\ ret = Render(Entry("ssr.dynamic", RouteId))

\* the template ends in a catch-all segment
IsCatchAllTemplate(template) ==
    Len(template) > 0 /\ template[Len(template)].kind = "catchall"

\* the non-catch-all templates of pages.dynamic that match the path
SpecificMatches(localeUri) ==
    { pages.dynamic[k] : k \in { m \in 1..Len(pages.dynamic) :
          /\ ~IsCatchAllTemplate(pages.dynamic[m])
          /\ DynMatches(pages.dynamic[m], localeUri) } }

\* a catch-all route of ssr.catchAll matches the path
CatchAllMatches(localeUri) ==
    \E c \in pages.ssr.catchAll : IsCatchAllTemplate(c) /\ DynMatches(c, localeUri)

\* the decision of a template taken by itself
TemplateDecision(template, localeUri) ==
    IF Holders(template) = {}
    THEN handle404(pages)
    ELSE BucketDecision(ResolutionOrder[Min(Holders(template))], template, localeUri)

\* the dynamic lookup of a path that a non-catch-all template and a route of
\* ssr.catchAll both match gives the decision of a non-catch-all template
SpecificRouteDecides ==
    (/\ DynamicLookupStep
     /\ SpecificMatches(LocaleUri(Top.uri)) # {}
     /\ CatchAllMatches(LocaleUri(Top.uri)))
    => \E t \in SpecificMatches(LocaleUri(Top.uri)) :
           ret' = TemplateDecision(t, LocaleUri(Top.uri))

\* pages.dynamic lists every non-catch-all template before every catch-all
\* template, as the sort of the build leaves it (index.ts:353-363)
CatchAllsLast ==
    \A j, k \in 1..Len(pages.dynamic) :
        (IsCatchAllTemplate(pages.dynamic[j]) /\ ~IsCatchAllTemplate(pages.dynamic[k]))
            => k < j

----------------------------------------------------------------------------
(* Claims about the classification of prepareBuildManifests *)

ClassNames == {"html", "api", "ssr"}

\* the class of a page file, in the claimed priority order
ClassOfFile(file) ==
    IF file.ext = "html" THEN "html"
    ELSE IF Len(file.segs) > 0 /\ file.segs[1] = "api" THEN "api"
    ELSE "ssr"

\* the buckets of a class after the classification (index.ts:61-65)
ClassBuckets(class) ==
    CASE class = "html" -> htmlPages
      [] class = "api"  -> apiPages
      [] class = "ssr"  -> ssrPages

\* the set of the class holds the value under the key
Recorded(class, kind, key, val) ==
    /\ key \in KeySet(ClassBuckets(class)[kind])
    /\ Get(ClassBuckets(class)[kind], key) = val

\* the file is recorded somewhere in the class
FileInClass(class, file) ==
    \/ \E k \in 1..Len(ClassBuckets(class).nonDynamic) :
           ClassBuckets(class).nonDynamic[k].val = file
    \/ \E k \in 1..Len(ClassBuckets(class).dynamic) :
           ClassBuckets(class).dynamic[k].val.file = file

HasOptionalCatchAll(route) == \E k \in 1..Len(route) : route[k] = "[[...slug]]"
HasDynamicSegment(route) == \E k \in 1..Len(route) : route[k] \in {"[id]", "[...slug]"}

\* the part of the route before /[[ , / when it is empty
BaseOf(route) ==
    LET first == Min({ k \in 1..Len(route) : route[k] = "[[...slug]]" })
    IN  SubSeq(route, 1, first - 1)

\* C17: every entry of pagesManifest is classified into exactly one class
\* (html when the file ends in .html, otherwise api when it starts with
\* pages/api, otherwise ssr): a plain dynamic route is recorded only in the
\* class's dynamic set, a fully static route only in its nonDynamic set, an
\* optional catch-all route in the dynamic set and, as companion, under its
\* base route in the nonDynamic set; no entry is dropped or recorded in two
\* classes.
C17_ClassifiedExactlyOnce ==
    bpc = "prerender" =>
        \A i \in 1..Len(pagesManifest) :
            LET route == pagesManifest[i].key
                file == pagesManifest[i].val
                class == ClassOfFile(file)
            IN  /\ \A other \in ClassNames \ {class} : ~FileInClass(other, file)
                /\ IF HasOptionalCatchAll(route)
                   THEN /\ Recorded(class, "dynamic", route, Dyn(file, route))
                        /\ Recorded(class, "nonDynamic", BaseOf(route), file)
                   ELSE IF HasDynamicSegment(route)
                   THEN /\ Recorded(class, "dynamic", route, Dyn(file, route))
                        /\ ~Recorded(class, "nonDynamic", route, file)
                   ELSE /\ Recorded(class, "nonDynamic", route, file)
                        /\ route \notin KeySet(ClassBuckets(class).dynamic)

====
